---- MODULE Spec2Model ----
(***************************************************************************)
(* Model of the Metrics list editor                                        *)
(* (webapp/src/components/backstage/playbook_edit/metrics/metrics.tsx).    *)
(*                                                                         *)
(* The component keeps three pieces of local state (saveMetricToggle,      *)
(* nextTask, deletingIdx) and works on three pieces of state lifted to its *)
(* parent (playbook.metrics, curEditingMetric, the changes-made flag).     *)
(* Every callback of the component is one action.  Indices are 0-based as  *)
(* in the source; sequences are 1-based, so element i of the source is     *)
(* metrics[i + 1] here.                                                    *)
(***************************************************************************)
EXTENDS Integers, Sequences, FiniteSets, TLC

VARIABLES
    metrics,            \* playbook.metrics, the committed list
    curEditingMetric,   \* the open editor {index, metric}, or NullEditing
    nextTask,           \* the pending task, or NullTask
    deletingIdx,        \* index awaiting delete confirmation, -1 when none
    saveMetricToggle,   \* the boolean save signal
    changesMade,        \* the parent's changes-made flag
    disabled,           \* the disabled prop
    hist,               \* the last three callbacks, each with the state it ran in
    steps,              \* number of callbacks run so far
    mode,               \* how the behaviour is explored: "traced", "deep" or "fair"
    startMetrics        \* playbook.metrics as the component was first rendered

vars == <<metrics, curEditingMetric, nextTask, deletingIdx, saveMetricToggle,
          changesMade, disabled, hist, steps, mode, startMetrics>>

-----------------------------------------------------------------------------
(* Bounds of the model *)

\* longest committed list the component starts with
InitLen == 3

\* number of callbacks a traced behaviour runs
MaxSteps == 5

\* number of callbacks a deep behaviour (one without history) runs
DeepSteps == 10

-----------------------------------------------------------------------------
(* Values *)

\* the ceiling of the add-metric control: metrics.length >= 4
MaxMetrics == 4

\* enum MetricType: two of the three types the DropdownMenuItems offer
MetricTypes == {"Duration", "Currency"}

\* ids and titles of the metrics the playbook already holds
Ids == <<"m1", "m2", "m3", "m4", "m5">>
Titles == <<"A", "B", "C", "D", "E">>

\* titles the editor can type into the draft
DraftTitles == {"X"}

\* targets MetricEdit passes to onAdd
Targets == {5}

\* a persisted metric of the initial playbook
Persisted(k) == [id |-> Ids[k], title |-> Titles[k], type |-> "Integer", target |-> 0]

\* newMetric(type): a metric that is not persisted yet (id is the empty string)
newMetric(metricType) == [id |-> "", title |-> "", type |-> metricType, target |-> 0]

\* what playbook.metrics[index] yields outside the array: undefined
UndefinedMetric == [id |-> "undefined", title |-> "undefined", type |-> "undefined", target |-> -1]

\* curEditingMetric === null
NullEditing == [open |-> FALSE, index |-> -1, metric |-> UndefinedMetric]

\* nextTask === null
NullTask == [type |-> "none", addType |-> "", index |-> -1]

Editing(index, metric) == [open |-> TRUE, index |-> index, metric |-> metric]

-----------------------------------------------------------------------------
(* Array helpers, computed as JavaScript computes them *)

Min(a, b) == IF a < b THEN a ELSE b
Max(a, b) == IF a > b THEN a ELSE b

\* Array.prototype.splice's clamping of its start argument
ActualStart(len, start) == IF start < 0 THEN Max(len + start, 0) ELSE Min(start, len)

\* arr.splice(start, 1, item) on a copy of arr
SpliceReplace(arr, start, item) ==
    LET s == ActualStart(Len(arr), start)
    IN  SubSeq(arr, 1, s) \o <<item>> \o SubSeq(arr, s + 2, Len(arr))

\* mutant: arr.splice(start), which removes everything from start on
SpliceRemove_ToEnd(arr, start) ==
    SubSeq(arr, 1, IF start < 0 THEN 0 ELSE IF start < Len(arr) THEN start ELSE Len(arr))

\* arr.splice(start, 1) on a copy of arr
SpliceRemove(arr, start) ==
    LET s == ActualStart(Len(arr), start)
    IN  SubSeq(arr, 1, s) \o SubSeq(arr, s + 2, Len(arr))

\* mutant: the index taken as a position counted from 1
At_FromOne(arr, index) ==
    IF index >= 1 /\ index <= Len(arr)
    THEN arr[index]
    ELSE [id |-> "undefined", title |-> "undefined", type |-> "undefined", target |-> -1]

\* arr[index]
At(arr, index) == IF index >= 0 /\ index < Len(arr) THEN arr[index + 1] ELSE UndefinedMetric

\* {...metric, target}
WithTarget(metric, target) == [metric EXCEPT !.target = target]

\* {...metric, title}: what MetricEdit's setMetric does to the draft
WithTitle(metric, title) == [metric EXCEPT !.title = title]

-----------------------------------------------------------------------------
(* Rendering *)

\* the displayed list: the committed list with the draft spliced in
Displayed ==
    IF curEditingMetric.open
    THEN SpliceReplace(metrics, curEditingMetric.index, curEditingMetric.metric)
    ELSE metrics

\* row idx renders as MetricEdit
IsEditRow(idx) == curEditingMetric.open /\ idx = curEditingMetric.index

\* rows of the displayed list
Rows == 0..(Len(Displayed) - 1)

\* mutant: the ceiling compared with > instead of >=
AddEnabled_OffByOne == ~(disabled \/ Len(Displayed) > MaxMetrics)

\* the DotMenu of the add control is enabled
AddEnabled == ~(disabled \/ Len(Displayed) >= MaxMetrics)

\* the ConfirmModalLight is shown
PromptShown == deletingIdx >= 0

-----------------------------------------------------------------------------
(* History: what ran, with which argument, in which state *)

Snapshot == [metrics |-> metrics, cur |-> curEditingMetric, task |-> nextTask,
             deletingIdx |-> deletingIdx, toggle |-> saveMetricToggle,
             changesMade |-> changesMade]

Call(op, addType, index, target) ==
    [op |-> op, addType |-> addType, index |-> index, target |-> target, pre |-> Snapshot]

\* the number of callbacks the behaviour runs
Limit == IF mode = "deep" THEN DeepSteps ELSE MaxSteps

\* a fair behaviour is never cut between a save signal and the editor's
\* answer to it (saveMetric or saveFailed)
WithinBound(call) ==
    \/ steps < Limit
    \/ mode = "fair" /\ nextTask # NullTask /\ call.op \in {"save", "saveFailed"}

Record(call) ==
    /\ WithinBound(call)
    /\ steps' = steps + 1
    /\ hist' = IF mode # "traced" THEN hist
               ELSE IF Len(hist) = 3 THEN Append(Tail(hist), call) ELSE Append(hist, call)
    /\ UNCHANGED <<mode, startMetrics>>

-----------------------------------------------------------------------------
(* Callbacks *)

\* mutant: addMetric without setChangesMade(true)
addMetric_NoFlag(metricType, index) ==
    /\ curEditingMetric' = [open |-> TRUE, index |-> index, metric |-> newMetric(metricType)]
    /\ changesMade' = changesMade

\* addMetric(metricType, index)
addMetric(metricType, index) ==
    /\ curEditingMetric' = Editing(index, newMetric(metricType))
    /\ changesMade' = TRUE

\* mutant: a deferred add does not replace a task that is already pending
requestAddMetric_KeepsFirst(addType) ==
    /\ AddEnabled
    /\ IF ~curEditingMetric.open
       THEN /\ addMetric(addType, Len(metrics))
            /\ UNCHANGED <<nextTask, saveMetricToggle>>
       ELSE /\ nextTask' = IF nextTask = NullTask
                           THEN [type |-> "add", addType |-> addType, index |-> -1]
                           ELSE nextTask
            /\ saveMetricToggle' = ~saveMetricToggle
            /\ UNCHANGED <<curEditingMetric, changesMade>>
    /\ UNCHANGED <<metrics, deletingIdx, disabled>>
    /\ Record(Call("requestAdd", addType, -1, -1))

\* requestAddMetric(addType), reached from the enabled DotMenu
requestAddMetric(addType) ==
    /\ AddEnabled
    /\ IF ~curEditingMetric.open
       THEN /\ addMetric(addType, Len(metrics))
            /\ UNCHANGED <<nextTask, saveMetricToggle>>
       ELSE /\ nextTask' = [type |-> "add", addType |-> addType, index |-> -1]
            /\ saveMetricToggle' = ~saveMetricToggle
            /\ UNCHANGED <<curEditingMetric, changesMade>>
    /\ UNCHANGED <<metrics, deletingIdx, disabled>>
    /\ Record(Call("requestAdd", addType, -1, -1))

\* mutant: the deferred branch records the task and forgets the save signal
requestEditMetric_NoSignal(index) ==
    /\ ~disabled
    /\ index \in Rows /\ ~IsEditRow(index)
    /\ IF ~curEditingMetric.open
       THEN /\ curEditingMetric' = Editing(index, At(metrics, index))
            /\ UNCHANGED nextTask
       ELSE /\ nextTask' = [type |-> "edit", addType |-> "", index |-> index]
            /\ UNCHANGED curEditingMetric
    /\ UNCHANGED <<metrics, deletingIdx, saveMetricToggle, changesMade, disabled>>
    /\ Record(Call("requestEdit", "", index, -1))

\* requestEditMetric(index), reached from the editClick of a MetricView row
requestEditMetric(index) ==
    /\ ~disabled
    /\ index \in Rows /\ ~IsEditRow(index)
    /\ IF ~curEditingMetric.open
       THEN /\ curEditingMetric' = Editing(index, At(metrics, index))
            /\ UNCHANGED <<nextTask, saveMetricToggle>>
       ELSE /\ nextTask' = [type |-> "edit", addType |-> "", index |-> index]
            /\ saveMetricToggle' = ~saveMetricToggle
            /\ UNCHANGED curEditingMetric
    /\ UNCHANGED <<metrics, deletingIdx, changesMade, disabled>>
    /\ Record(Call("requestEdit", "", index, -1))

\* mutant: the prompt opens at once only when no editor is open
requestDeleteMetric_IdleOnly(index) ==
    /\ index \in Rows
    /\ IsEditRow(index) \/ ~disabled
    /\ IF ~curEditingMetric.open
       THEN /\ deletingIdx' = index
            /\ UNCHANGED <<nextTask, saveMetricToggle>>
       ELSE /\ nextTask' = [type |-> "delete", addType |-> "", index |-> index]
            /\ saveMetricToggle' = ~saveMetricToggle
            /\ UNCHANGED deletingIdx
    /\ UNCHANGED <<metrics, curEditingMetric, changesMade, disabled>>
    /\ Record(Call("requestDelete", "", index, -1))

\* requestDeleteMetric(index), reached from the deleteClick of any row
requestDeleteMetric(index) ==
    /\ index \in Rows
    /\ IsEditRow(index) \/ ~disabled
    /\ IF ~curEditingMetric.open \/ curEditingMetric.index = index
       THEN /\ deletingIdx' = index
            /\ UNCHANGED <<nextTask, saveMetricToggle>>
       ELSE /\ nextTask' = [type |-> "delete", addType |-> "", index |-> index]
            /\ saveMetricToggle' = ~saveMetricToggle
            /\ UNCHANGED deletingIdx
    /\ UNCHANGED <<metrics, curEditingMetric, changesMade, disabled>>
    /\ Record(Call("requestDelete", "", index, -1))

\* the setMetric prop of MetricEdit: the user edits the draft
setMetric(title) ==
    /\ \E idx \in Rows : IsEditRow(idx)
    /\ curEditingMetric.metric.title # title
    /\ curEditingMetric' = Editing(curEditingMetric.index,
                                   WithTitle(curEditingMetric.metric, title))
    /\ UNCHANGED <<metrics, nextTask, deletingIdx, saveMetricToggle, changesMade, disabled>>
    /\ Record(Call("setMetric", "", -1, -1))

\* mutant: the draft is committed without the target
CommitDraft_NoTarget(target) ==
    SpliceReplace(metrics, curEditingMetric.index, curEditingMetric.metric)

\* the list the updater passed to setPlaybook returns: the draft, with the
\* target, spliced in at the editor's index
CommitDraft(target) ==
    SpliceReplace(metrics, curEditingMetric.index,
                  WithTarget(curEditingMetric.metric, target))

\* the index saveMetric hands to addMetric: the local `length`, which the
\* updater passed to setPlaybook overwrites only if React runs that updater
\* before setPlaybook returns (eagerly); otherwise it is still the length of
\* the list the callback was rendered with
AddIndex(eager, committed) == IF eager THEN Len(committed) ELSE Len(metrics)

\* nextTask?.addType || MetricType.Duration
TaskAddType == IF nextTask.addType = "" THEN "Duration" ELSE nextTask.addType

\* mutant: the pending edit moves the editor and keeps the old draft
EditTask_KeepsDraft(index) == Editing(index, curEditingMetric.metric)

\* the editor the pending edit opens: the metric of the list the callback
\* was rendered with
EditTask(index) == Editing(index, At(metrics, index))

\* saveMetric(target), the onAdd prop of the rendered MetricEdit
saveMetric(target, eager) ==
    /\ \E idx \in Rows : IsEditRow(idx)
    /\ metrics' = CommitDraft(target)
    /\ IF nextTask.type = "add"
       THEN /\ addMetric(TaskAddType, AddIndex(eager, CommitDraft(target)))
            /\ UNCHANGED deletingIdx
       ELSE /\ changesMade' = TRUE
            /\ IF nextTask.type = "edit"
               THEN /\ curEditingMetric' = EditTask(nextTask.index)
                    /\ UNCHANGED deletingIdx
               ELSE IF nextTask.type = "delete"
               THEN /\ deletingIdx' = nextTask.index
                    /\ UNCHANGED curEditingMetric
               ELSE /\ curEditingMetric' = NullEditing
                    /\ UNCHANGED deletingIdx
    /\ nextTask' = NullTask
    /\ UNCHANGED <<saveMetricToggle, disabled>>
    /\ Record(Call("save", "", -1, target))

\* mutant: the failed save leaves the pending task in place
saveFailed_KeepsTask ==
    /\ \E idx \in Rows : IsEditRow(idx)
    /\ UNCHANGED <<metrics, curEditingMetric, nextTask, deletingIdx, saveMetricToggle,
                   changesMade, disabled>>
    /\ Record(Call("saveFailed", "", -1, -1))

\* the saveFailed prop of MetricEdit
saveFailed ==
    /\ \E idx \in Rows : IsEditRow(idx)
    /\ nextTask' = NullTask
    /\ UNCHANGED <<metrics, curEditingMetric, deletingIdx, saveMetricToggle, changesMade, disabled>>
    /\ Record(Call("saveFailed", "", -1, -1))

\* mutant: confirmedDelete without setCurEditingMetric(null)
confirmedDelete_KeepsEditor ==
    /\ PromptShown
    /\ metrics' = SpliceRemove(metrics, deletingIdx)
    /\ changesMade' = TRUE
    /\ deletingIdx' = -1
    /\ UNCHANGED <<curEditingMetric, nextTask, saveMetricToggle, disabled>>
    /\ Record(Call("confirmDelete", "", -1, -1))

\* mutant: confirmedDelete without setChangesMade(true)
confirmedDelete_NoFlag ==
    /\ PromptShown
    /\ metrics' = SpliceRemove(metrics, deletingIdx)
    /\ deletingIdx' = -1
    /\ curEditingMetric' = NullEditing
    /\ UNCHANGED <<changesMade, nextTask, saveMetricToggle, disabled>>
    /\ Record(Call("confirmDelete", "", -1, -1))

\* confirmedDelete, the onConfirm prop of the shown ConfirmModalLight
confirmedDelete ==
    /\ PromptShown
    /\ metrics' = SpliceRemove(metrics, deletingIdx)
    /\ changesMade' = TRUE
    /\ deletingIdx' = -1
    /\ curEditingMetric' = NullEditing
    /\ UNCHANGED <<nextTask, saveMetricToggle, disabled>>
    /\ Record(Call("confirmDelete", "", -1, -1))

\* mutant: cancelling the prompt also closes the editor, as confirming does
cancelDelete_ClosesEditor ==
    /\ PromptShown
    /\ deletingIdx' = -1
    /\ curEditingMetric' = NullEditing
    /\ UNCHANGED <<metrics, nextTask, saveMetricToggle, changesMade, disabled>>
    /\ Record(Call("cancelDelete", "", -1, -1))

\* the onCancel prop of the shown ConfirmModalLight
cancelDelete ==
    /\ PromptShown
    /\ deletingIdx' = -1
    /\ UNCHANGED <<metrics, curEditingMetric, nextTask, saveMetricToggle, changesMade, disabled>>
    /\ Record(Call("cancelDelete", "", -1, -1))

-----------------------------------------------------------------------------
(* Specification *)

InitialLists == {[k \in 1..n |-> Persisted(k)] : n \in 0..InitLen}

\* the state after the first render, from a playbook holding `lists`
Mounted(lists) ==
    /\ metrics \in lists
    /\ startMetrics = metrics
    /\ curEditingMetric = NullEditing
    /\ nextTask = NullTask
    /\ deletingIdx = -1
    /\ saveMetricToggle = FALSE
    /\ changesMade = FALSE
    /\ disabled \in BOOLEAN
    /\ hist = <<>>
    /\ steps = 0

Init == Mounted(InitialLists) /\ mode = "traced"

\* the playbooks of the long runs: up to the ceiling of the add control
DeepLists == {[k \in 1..n |-> Persisted(k)] : n \in 0..MaxMetrics}

DeepInit == Mounted(DeepLists) /\ mode = "deep"

Next ==
    \/ \E addType \in MetricTypes : requestAddMetric(addType)
    \/ \E index \in 0..MaxMetrics : requestEditMetric(index)
    \/ \E index \in 0..MaxMetrics : requestDeleteMetric(index)
    \/ \E title \in DraftTitles : setMetric(title)
    \/ \E target \in Targets, eager \in BOOLEAN : saveMetric(target, eager)
    \/ saveFailed
    \/ confirmedDelete
    \/ cancelDelete

Spec == Init /\ [][Next]_vars

\* long behaviours, without history
DeepSpec == DeepInit /\ [][Next]_vars

\* the open editor answers a save signal: MetricEdit reacts to saveToggle by
\* calling onAdd or saveFailed
Answer ==
    /\ nextTask # NullTask
    /\ \/ \E target \in Targets, eager \in BOOLEAN : saveMetric(target, eager)
       \/ saveFailed

FairInit == Mounted(InitialLists) /\ mode = "fair"

\* behaviours in which the open editor always answers a save signal
FairSpec == FairInit /\ [][Next]_vars /\ WF_vars(Answer)

-----------------------------------------------------------------------------
(* Reading the history *)

\* the k-th most recent callback (0 is the last one)
H(k) == hist[Len(hist) - k]

\* the k-th most recent callback was op
Ran(k, op) == Len(hist) > k /\ H(k).op = op

\* a request that found an editor open and was deferred behind it
Deferred(k, op) ==
    /\ Ran(k, op)
    /\ H(k).pre.cur.open
    /\ op = "requestDelete" => H(k).index # H(k).pre.cur.index

\* s with element i (0-based) replaced by item, or item appended when i = Len(s)
ReplaceAt(s, i, item) ==
    [k \in 1..(IF i = Len(s) THEN Len(s) + 1 ELSE Len(s)) |-> IF k = i + 1 THEN item ELSE s[k]]

\* s without element i (0-based)
RemoveAt(s, i) == [k \in 1..(Len(s) - 1) |-> IF k <= i THEN s[k] ELSE s[k + 1]]

-----------------------------------------------------------------------------
(* C1 *)

\* C1: requestAdd(type) while an editor is open at i, followed by a successful
\* save(target), commits the prior draft at i and opens a new draft of the
\* requested type at the index equal to the length of the post-commit list, so
\* the metric just committed at i is still displayed.
C1_AddAfterSaveOpensAtEnd ==
    (Deferred(1, "requestAdd") /\ Ran(0, "save")) =>
        LET p == H(1).pre
            i == p.cur.index
            d == WithTarget(p.cur.metric, H(0).target)
        IN  /\ metrics = ReplaceAt(p.metrics, i, d)
            /\ curEditingMetric = Editing(Len(metrics), newMetric(H(1).addType))
            /\ At(Displayed, i) = d

-----------------------------------------------------------------------------
(* C2 *)

\* C2 as stated: confirmDelete with the prompt open at d leaves a committed
\* list one shorter, equal to the old list with position d removed, and no
\* open editor.
C2_ConfirmDeleteAlwaysRemovesOne ==
    Ran(0, "confirmDelete") =>
        LET p == H(0).pre
        IN  /\ Len(metrics) = Len(p.metrics) - 1
            /\ metrics = RemoveAt(p.metrics, p.deletingIdx)
            /\ ~curEditingMetric.open

\* C2 amended: confirmDelete with the prompt open at d removes exactly
\* position d of the committed list when d is an index of that list, leaves
\* the committed list as it is when d is not (the prompt is on the row of a
\* draft that was never committed, for instance), and in both cases leaves no
\* open editor and no open prompt.
C2_ConfirmDeleteRemovesCommitted ==
    Ran(0, "confirmDelete") =>
        LET p == H(0).pre
            d == p.deletingIdx
        IN  /\ d >= 0
            /\ d < Len(p.metrics) =>
                   /\ Len(metrics) = Len(p.metrics) - 1
                   /\ metrics = RemoveAt(p.metrics, d)
            /\ d >= Len(p.metrics) => metrics = p.metrics
            /\ ~curEditingMetric.open
            /\ deletingIdx = -1

\* a committed metric has just been deleted from the middle of the list
C2_Witness ==
    /\ Ran(0, "confirmDelete")
    /\ H(0).pre.deletingIdx + 1 < Len(H(0).pre.metrics)
    /\ Len(metrics) = Len(H(0).pre.metrics) - 1

-----------------------------------------------------------------------------
(* C3 *)

\* C3: requestEdit(j) while an editor is open at i # j, followed by a
\* successful save(target), leaves the editor open at j with a draft equal to
\* the metric at j of the post-commit list, the earlier draft committed at i
\* with the target, and no pending task.
C3_EditAfterSave ==
    (Deferred(1, "requestEdit") /\ Ran(0, "save")) =>
        LET p == H(1).pre
            i == p.cur.index
            j == H(1).index
        IN  /\ i # j
            /\ curEditingMetric.open
            /\ curEditingMetric.index = j
            /\ j < Len(metrics)
            /\ curEditingMetric.metric = metrics[j + 1]
            /\ metrics = ReplaceAt(p.metrics, i, WithTarget(p.cur.metric, H(0).target))
            /\ nextTask = NullTask

\* an edited draft was committed and the editor moved to another row
C3_Witness ==
    /\ Deferred(1, "requestEdit") /\ Ran(0, "save")
    /\ H(1).pre.cur.metric.title \in DraftTitles
    /\ curEditingMetric.index = H(1).index

-----------------------------------------------------------------------------
(* C4 *)

\* C4: requestDelete(j) while editing i # j (no prompt open) records a pending
\* delete and flips the save signal; after the save-failed callback the editor
\* is still open at i with its draft unchanged, the prompt is not open, the
\* pending task is empty and the committed list is unchanged.
C4_DeleteThenSaveFailed ==
    (Deferred(1, "requestDelete") /\ H(1).pre.deletingIdx = -1 /\ Ran(0, "saveFailed")) =>
        LET p == H(1).pre
            q == H(0).pre
        IN  /\ q.task = [type |-> "delete", addType |-> "", index |-> H(1).index]
            /\ q.toggle = ~p.toggle
            /\ curEditingMetric = p.cur
            /\ curEditingMetric.open
            /\ deletingIdx = -1
            /\ nextTask = NullTask
            /\ metrics = p.metrics

\* a deferred delete was dropped by a failed save
C4_Witness ==
    /\ Deferred(1, "requestDelete") /\ H(1).pre.deletingIdx = -1 /\ Ran(0, "saveFailed")
    /\ H(0).pre.task.type = "delete"

-----------------------------------------------------------------------------
(* C5 *)

\* C5: with the editor open at i, requestDelete(j) with j # i, then a
\* successful save(t), then confirmDelete yields the committed list equal to
\* the original with position i replaced by the draft carrying target t and
\* position j removed, with the editor closed, the prompt closed and no
\* pending task.
C5_DeferredDeleteEndToEnd ==
    (Deferred(2, "requestDelete") /\ Ran(1, "save") /\ Ran(0, "confirmDelete")) =>
        LET p == H(2).pre
            i == p.cur.index
            j == H(2).index
            d == WithTarget(p.cur.metric, H(1).target)
        IN  /\ metrics = RemoveAt(ReplaceAt(p.metrics, i, d), j)
            /\ ~curEditingMetric.open
            /\ deletingIdx = -1
            /\ nextTask = NullTask

\* the example: [A, B, C], editing 1, delete 2, save with target 5, confirm
C5_Witness ==
    /\ Deferred(2, "requestDelete") /\ Ran(1, "save") /\ Ran(0, "confirmDelete")
    /\ H(2).pre.metrics = <<Persisted(1), Persisted(2), Persisted(3)>>
    /\ H(2).pre.cur.index = 1 /\ H(2).index = 2 /\ H(1).target = 5
    /\ metrics = <<Persisted(1), WithTarget(Persisted(2), 5)>>

-----------------------------------------------------------------------------
(* C6 *)

\* C6: requestAdd(type) with no editor open opens an editor at the index equal
\* to the committed length with a fresh draft of the requested type, so the
\* displayed list is one longer than before; the committed list, the pending
\* task, the deleting index and the save signal are unchanged and the
\* changes-made flag is set.
C6_AddWhenIdle ==
    (Ran(0, "requestAdd") /\ ~H(0).pre.cur.open) =>
        LET p == H(0).pre
        IN  /\ curEditingMetric = Editing(Len(p.metrics), newMetric(H(0).addType))
            /\ curEditingMetric.metric.type = H(0).addType
            /\ Len(Displayed) = Len(p.metrics) + 1
            /\ At(Displayed, Len(p.metrics)) = curEditingMetric.metric
            /\ metrics = p.metrics
            /\ nextTask = p.task
            /\ deletingIdx = p.deletingIdx
            /\ saveMetricToggle = p.toggle
            /\ changesMade

\* an add on an idle, unchanged, non-empty list
C6_Witness ==
    /\ Ran(0, "requestAdd") /\ ~H(0).pre.cur.open
    /\ ~H(0).pre.changesMade
    /\ Len(metrics) > 0

-----------------------------------------------------------------------------
(* C7 *)

\* C7: requestDelete(i) while the editor is open at i, or while no editor is
\* open, immediately opens the delete confirmation for i: the deleting index
\* becomes i, no pending task is created, the save signal is not flipped, and
\* the editor and the committed list are unchanged.
C7_DeleteSameIndexImmediate ==
    (Ran(0, "requestDelete") /\ (~H(0).pre.cur.open \/ H(0).pre.cur.index = H(0).index)) =>
        LET p == H(0).pre
        IN  /\ deletingIdx = H(0).index
            /\ nextTask = p.task
            /\ saveMetricToggle = p.toggle
            /\ curEditingMetric = p.cur
            /\ metrics = p.metrics

\* the delete was requested on the row being edited
C7_Witness ==
    /\ Ran(0, "requestDelete")
    /\ H(0).pre.cur.open /\ H(0).pre.cur.index = H(0).index
    /\ deletingIdx = H(0).index

-----------------------------------------------------------------------------
(* C8 *)

\* C8: save(target) with an editor open at i commits the draft, with the
\* target, at position i of the committed list: every other position keeps its
\* element and order, the length is unchanged when i is an existing index and
\* grows by exactly one when i equals the old length, and the changes-made
\* flag is set.
C8_SaveCommitsAtIndex ==
    Ran(0, "save") =>
        LET p == H(0).pre
            i == p.cur.index
        IN  /\ p.cur.open
            /\ i \in 0..Len(p.metrics)
            /\ At(metrics, i) = WithTarget(p.cur.metric, H(0).target)
            /\ \A k \in 0..(Len(p.metrics) - 1) : k # i => At(metrics, k) = At(p.metrics, k)
            /\ i < Len(p.metrics) => Len(metrics) = Len(p.metrics)
            /\ i = Len(p.metrics) => Len(metrics) = Len(p.metrics) + 1
            /\ changesMade

\* an edited draft replaced an existing metric that is not the last one
C8_Witness ==
    /\ Ran(0, "save")
    /\ H(0).pre.cur.index + 1 < Len(H(0).pre.metrics)
    /\ H(0).pre.cur.metric.title \in DraftTitles
    /\ Len(metrics) = Len(H(0).pre.metrics)

-----------------------------------------------------------------------------
(* C9 *)

\* C9: a request that arrives while an editor is open (requestAdd, requestEdit,
\* or requestDelete for another index than the editor's) records exactly one
\* pending task of the matching kind, flips the save signal exactly once, and
\* leaves the editor, the committed list and the deleting index unchanged.
C9_DeferredRequest ==
    \A op \in {"requestAdd", "requestEdit", "requestDelete"} :
        Deferred(0, op) =>
            LET p == H(0).pre
            IN  /\ nextTask = (CASE op = "requestAdd" ->
                                      [type |-> "add", addType |-> H(0).addType, index |-> -1]
                                 [] op = "requestEdit" ->
                                      [type |-> "edit", addType |-> "", index |-> H(0).index]
                                 [] op = "requestDelete" ->
                                      [type |-> "delete", addType |-> "", index |-> H(0).index])
                /\ saveMetricToggle = ~p.toggle
                /\ curEditingMetric = p.cur
                /\ metrics = p.metrics
                /\ deletingIdx = p.deletingIdx

\* a deferred request replaced the pending task of an earlier one
C9_Witness ==
    /\ Deferred(0, "requestEdit")
    /\ H(0).pre.task.type = "add"
    /\ nextTask.type = "edit"

-----------------------------------------------------------------------------
(* C10 *)

\* C10: requestEdit(index) with no editor open opens the editor at that index
\* with a draft equal to the committed metric at that index, and leaves the
\* committed list, the pending task, the deleting index, the save signal and
\* the changes-made flag unchanged.
C10_EditWhenIdle ==
    (Ran(0, "requestEdit") /\ ~H(0).pre.cur.open) =>
        LET p == H(0).pre
            j == H(0).index
        IN  /\ j \in 0..(Len(p.metrics) - 1)
            /\ curEditingMetric = Editing(j, p.metrics[j + 1])
            /\ metrics = p.metrics
            /\ nextTask = p.task
            /\ deletingIdx = p.deletingIdx
            /\ saveMetricToggle = p.toggle
            /\ changesMade = p.changesMade

\* the example: [A, B, C], edit 1 opens the editor at 1 with a copy of B
C10_Witness ==
    /\ Ran(0, "requestEdit") /\ ~H(0).pre.cur.open
    /\ metrics = <<Persisted(1), Persisted(2), Persisted(3)>>
    /\ curEditingMetric = Editing(1, Persisted(2))

-----------------------------------------------------------------------------
(* C11 *)

\* C11: cancelDelete clears the deleting index only: after it the prompt is
\* closed and the editor (index and draft), the committed list, the pending
\* task, the save signal and the changes-made flag are exactly as before.
C11_CancelDeleteOnlyClosesPrompt ==
    Ran(0, "cancelDelete") =>
        LET p == H(0).pre
        IN  /\ p.deletingIdx >= 0
            /\ deletingIdx = -1
            /\ curEditingMetric = p.cur
            /\ metrics = p.metrics
            /\ nextTask = p.task
            /\ saveMetricToggle = p.toggle
            /\ changesMade = p.changesMade

\* the prompt was cancelled while an editor with an edited draft was open
C11_Witness ==
    /\ Ran(0, "cancelDelete")
    /\ curEditingMetric.open
    /\ curEditingMetric.metric.title \in DraftTitles
    /\ deletingIdx = -1

-----------------------------------------------------------------------------
(* C12 *)

\* the number of rows shown, counted from the committed list and the editor:
\* a draft at or past the end of the committed list adds a row
RowCount ==
    IF curEditingMetric.open /\ curEditingMetric.index >= Len(metrics)
    THEN Len(metrics) + 1
    ELSE Len(metrics)

\* C12 as stated: in every reachable state the add control is enabled if and
\* only if the displayed list has fewer than 4 entries.
C12_AddEnabledIffFewerThanFour == AddEnabled <=> RowCount < 4

\* C12 amended: in every reachable state the add control is enabled if and
\* only if the list is not globally disabled and the displayed
\* (draft-inclusive) list has fewer than 4 entries; requestAdd can run exactly
\* then.
C12_AddEnabledIffFewerThanFourAndNotDisabled ==
    /\ AddEnabled <=> (~disabled /\ RowCount < 4)
    /\ steps < Limit =>
           ((ENABLED requestAddMetric("Duration")) <=> (~disabled /\ RowCount < 4))

\* three committed metrics and a new draft: four rows, the control is off
\* although the list is not disabled
C12_Witness ==
    /\ ~disabled
    /\ curEditingMetric.open
    /\ Len(metrics) = 3
    /\ Len(Displayed) = 4
    /\ ~AddEnabled

-----------------------------------------------------------------------------
(* C13 *)

\* C13: in every reachable state in which the delete prompt is open and an
\* editor is open too, the editor's index is the deleting index; when the
\* prompt is opened for any other index (a pending delete executed by
\* saveMetric included) the editor is closed.  Stated for the states in which
\* a callback has just opened the prompt.
C13_PromptAndEditorSameIndex ==
    (Len(hist) > 0 /\ H(0).pre.deletingIdx = -1 /\ PromptShown /\ curEditingMetric.open)
        => curEditingMetric.index = deletingIdx

-----------------------------------------------------------------------------
(* C14 *)

\* C14: a pending task exists only while an editor is open: in every reachable
\* state, if no editor is open then the pending task is empty.
C14_PendingTaskOnlyWhileEditing == ~curEditingMetric.open => nextTask = NullTask

-----------------------------------------------------------------------------
(* C15 *)

\* the last callback opened the editor on a new, not yet committed metric
JustAdded ==
    /\ Len(hist) > 0
    /\ \/ H(0).op = "requestAdd" /\ ~H(0).pre.cur.open
       \/ H(0).op = "save" /\ H(0).pre.task.type = "add"

\* the last callback opened the editor on a committed metric
JustOpenedForEdit ==
    /\ Len(hist) > 0
    /\ \/ H(0).op = "requestEdit" /\ ~H(0).pre.cur.open
       \/ H(0).op = "save" /\ H(0).pre.task.type = "edit"

\* C15: the displayed list shows exactly one row per logical metric: it is the
\* committed list with the draft placed at the editor's index, the editor's
\* index lies between 0 and the committed length inclusive, the displayed
\* length is the committed length plus one when the draft is a not yet
\* committed new metric and the committed length otherwise, and no committed
\* metric other than the one being edited is missing from the display.
C15_OneRowPerMetric ==
    IF ~curEditingMetric.open
    THEN Displayed = metrics
    ELSE LET i == curEditingMetric.index
         IN  /\ i \in 0..Len(metrics)
             /\ Displayed = ReplaceAt(metrics, i, curEditingMetric.metric)
             /\ JustAdded =>
                    /\ Len(Displayed) = Len(metrics) + 1
                    /\ \A k \in 0..(Len(metrics) - 1) : At(Displayed, k) = metrics[k + 1]
             /\ JustOpenedForEdit => Len(Displayed) = Len(metrics)
             /\ \A k \in 0..(Len(metrics) - 1) : k # i => At(Displayed, k) = metrics[k + 1]

-----------------------------------------------------------------------------
(* C16 *)

Requests == {"requestAdd", "requestEdit", "requestDelete"}

\* C16: at most one pending task exists and a later request overwrites an
\* earlier one: after two deferred requests made while the same editor is
\* open, the next successful save executes only the more recent request
\* (exactly one follow-up action) and the earlier request has no effect.
C16_LaterRequestWins ==
    \A op1, op2 \in Requests :
        (Deferred(2, op1) /\ Deferred(1, op2) /\ Ran(0, "save")) =>
            LET p == H(2).pre
                r == H(1)
            IN  /\ metrics = ReplaceAt(p.metrics, p.cur.index,
                                       WithTarget(p.cur.metric, H(0).target))
                /\ nextTask = NullTask
                /\ op2 = "requestAdd" =>
                       /\ curEditingMetric.open
                       /\ curEditingMetric.metric = newMetric(r.addType)
                       /\ deletingIdx = p.deletingIdx
                /\ op2 = "requestEdit" =>
                       /\ r.index < Len(metrics)
                       /\ curEditingMetric = Editing(r.index, metrics[r.index + 1])
                       /\ deletingIdx = p.deletingIdx
                /\ op2 = "requestDelete" =>
                       /\ deletingIdx = r.index
                       /\ curEditingMetric = p.cur

\* a delete was requested, then an add: the save opens the new draft and no prompt
C16_Witness ==
    /\ Deferred(2, "requestDelete") /\ Deferred(1, "requestAdd") /\ Ran(0, "save")
    /\ curEditingMetric.metric = newMetric(H(1).addType)
    /\ deletingIdx = -1

-----------------------------------------------------------------------------
(* C17 *)

\* C17: a pending task dropped by a failed save is never retried: after the
\* save-failed callback, a later successful save with no new request in
\* between closes the editor (no editor open, no prompt opened, no new draft)
\* and performs none of the dropped add, edit or delete; and after every save
\* the pending task is empty.
C17_DroppedTaskNotRetried ==
    /\ Ran(0, "save") => nextTask = NullTask
    /\ (Ran(0, "save") /\
        (Ran(1, "saveFailed") \/ (Ran(1, "setMetric") /\ Ran(2, "saveFailed")))) =>
           LET q == H(0).pre
           IN  /\ ~curEditingMetric.open
               /\ deletingIdx = q.deletingIdx
               /\ metrics = ReplaceAt(q.metrics, q.cur.index,
                                      WithTarget(q.cur.metric, H(0).target))

\* a deferred add was dropped by a failed save, and the save that followed
\* closed the editor
C17_Witness ==
    /\ Deferred(2, "requestAdd") /\ Ran(1, "saveFailed") /\ Ran(0, "save")
    /\ H(1).pre.task.type = "add"
    /\ ~curEditingMetric.open

-----------------------------------------------------------------------------
(* C18 *)

-----------------------------------------------------------------------------
(* C19 *)

\* C19: starting from a committed list of at most 4 metrics, and with
\* requestAdd invoked only while the add control is enabled, the displayed
\* (draft-inclusive) list and the committed list never have more than 4
\* entries.
C19_FourMetricCeiling == Len(Displayed) <= MaxMetrics /\ Len(metrics) <= MaxMetrics

-----------------------------------------------------------------------------
(* C20 *)

\* C20: in every reachable state, if the committed list differs from the list
\* the component started with, the changes-made flag is true; no callback
\* modifies the committed list without setting the flag, and the component
\* never resets the flag to false.
C20_ChangesMadeTracksList ==
    /\ metrics # startMetrics => changesMade
    /\ Len(hist) > 0 =>
           /\ metrics # H(0).pre.metrics => changesMade
           /\ H(0).pre.changesMade => changesMade

\* the first change of the list is a confirmed delete, which sets the flag
C20_Witness ==
    /\ Ran(0, "confirmDelete")
    /\ ~H(0).pre.changesMade
    /\ H(0).pre.metrics = startMetrics
    /\ metrics # startMetrics
    /\ changesMade

====
